---- MODULE Spec2Model ----
(***************************************************************************)
(* Model of dashboard/app.py: the offset-paginated loader load_data, the   *)
(* module-level preprocessing and aggregation of the incident table, and   *)
(* the year-partitioned loader load_data_for_evolution_chart.              *)
(*                                                                         *)
(* A column value that pandas may leave missing (NaN / NaT / None) is a    *)
(* sequence of length 0 or 1: <<>> is the missing value, <<v>> the value v.*)
(* A table is a sequence of rows (records); a Series produced by a         *)
(* group-by is a sequence of <<key, count>> pairs in index order.          *)
(***************************************************************************)
EXTENDS Integers, Sequences, FiniteSets, TLC

\* Model sizes.  app.py sets LIMIT = 50000 (line 16) and MAX_PAGES = 1000
\* (line 18); the loop of load_data is run here with a small page size and a
\* small page ceiling, and the source holds at most MaxRows matching rows.
LIMIT == 2
MAX_PAGES == 3
MaxRows == 7
\* At most MaxUnusual years of one historical load answer differently from
\* the source's usual answer.
MaxUnusual == 2

\* range(2001, 2025) of load_data_for_evolution_chart.
FIRST_YEAR == 2001
END_YEAR == 2025

VARIABLES
    data,               \* the source's rows matching $where, in $order
    pc,                 \* position of the main script
    page,               \* loop variable of load_data
    offset,             \* load_data: offset
    chunks,             \* load_data: chunks
    requests,           \* page requests issued so far: [offset, limit]
    responses,          \* what the source answered to each of them
    err,                \* the exception that ended the script, or "none"
    df,                 \* the incident table
    crimes_by_hour,
    crimes_by_weekday,
    crime_trends,       \* df_trend of chart_regional_crime_trends
    usual,              \* historical source: its usual answer to a year
    hpc,                \* position of load_data_for_evolution_chart
    yr,                 \* its loop variable
    hchunks,            \* its chunks
    hrequests,          \* the years it requested, in order
    houtcomes,          \* what the source answered to each of them
    df_hist             \* its result

vars == <<data, pc, page, offset, chunks, requests, responses, err, df,
          crimes_by_hour, crimes_by_weekday, crime_trends,
          usual, hpc, yr, hchunks, hrequests, houtcomes, df_hist>>

mainVars == <<data, pc, page, offset, chunks, requests, responses, err, df,
              crimes_by_hour, crimes_by_weekday, crime_trends>>

histVars == <<usual, hpc, yr, hchunks, hrequests, houtcomes, df_hist>>

----------------------------------------------------------------------------
\* Values

Missing == <<>>
Some(v) == <<v>>

\* The text of a date cell as read_csv delivers it: its year, month, day and
\* hour fields, or no fields at all for text that is no timestamp.
Text(f) == [kind |-> "text", f |-> f]
\* A datetime64 value; NaT has no fields.
Timestamp(f) == [kind |-> "ts", f |-> f]
NaT == Timestamp(<<>>)

IsLeap(y) == (y % 4 = 0 /\ y % 100 # 0) \/ y % 400 = 0

DaysInMonth(y, m) ==
    IF m = 2 THEN (IF IsLeap(y) THEN 29 ELSE 28)
    ELSE IF m \in {4, 6, 9, 11} THEN 30 ELSE 31

\* Whether the text of a date cell is a timestamp pandas can parse.
Parseable(f) ==
    /\ Len(f) = 4
    /\ f[1] \in 1678..2261
    /\ f[2] \in 1..12
    /\ f[3] \in 1..DaysInMonth(f[1], f[2])
    /\ f[4] \in 0..23

\* pd.to_datetime of one cell.  A cell that already is a datetime is kept;
\* text is parsed; text that cannot be parsed becomes NaT under
\* errors="coerce" and raises otherwise.
ToDatetimeCell(v, coerce) ==
    IF v.kind = "ts" THEN [raised |-> FALSE, v |-> v]
    ELSE IF Parseable(v.f) THEN [raised |-> FALSE, v |-> Timestamp(v.f)]
    ELSE IF coerce THEN [raised |-> FALSE, v |-> NaT]
    ELSE [raised |-> TRUE, v |-> NaT]

\* Series.dt.year / .dt.month / .dt.hour: missing for NaT.
DtYear(d) == IF d.f = <<>> THEN Missing ELSE Some(d.f[1])
DtMonth(d) == IF d.f = <<>> THEN Missing ELSE Some(d.f[2])
DtHour(d) == IF d.f = <<>> THEN Missing ELSE Some(d.f[4])

DayNames == <<"Sunday", "Monday", "Tuesday", "Wednesday", "Thursday",
              "Friday", "Saturday">>

MonthKey == <<0, 3, 2, 5, 0, 3, 5, 1, 4, 6, 2, 4>>

\* Day of the week of a calendar date, 0 = Sunday.
DayOfWeek(y, m, d) ==
    LET yy == IF m < 3 THEN y - 1 ELSE y
    IN  (yy + (yy \div 4) - (yy \div 100) + (yy \div 400) + MonthKey[m] + d) % 7

\* Series.dt.day_name(): missing for NaT.
DtDayName(d) ==
    IF d.f = <<>> THEN Missing
    ELSE Some(DayNames[DayOfWeek(d.f[1], d.f[2], d.f[3]) + 1])

\* order, line 105.
order == <<"Monday", "Tuesday", "Wednesday", "Thursday", "Friday",
           "Saturday", "Sunday">>

Range(s) == {s[i] : i \in DOMAIN s}

\* pd.Categorical(values, categories=order): a value outside the categories
\* becomes missing.
AsCategorical(v, categories) ==
    IF v # Missing /\ v[1] \in Range(categories) THEN v ELSE Missing

\* Assignment df[name] = value on one row: the column is added or replaced.
SetCol(r, name, v) ==
    [c \in (DOMAIN r) \cup {name} |-> IF c = name THEN v ELSE r[c]]

----------------------------------------------------------------------------
\* The source

\* The rows the source can hold, in its order; row i of the result is entry
\* ((i-1) mod Len) + 1 of this list.  Each has the date text, the year column
\* and the district the source delivers.
Catalogue == <<
    [date |-> Text(<<2016, 1, 4, 8>>),    year |-> Some(2016), district |-> Some(1)],
    [date |-> Text(<<2016, 1, 4, 8>>),    year |-> Some(2016), district |-> Some(11)],
    [date |-> Text(<<2016, 1, 6, 23>>),   year |-> Some(2016), district |-> Some(16)],
    [date |-> Text(<<>>),                 year |-> Some(2017), district |-> Some(1)],
    [date |-> Text(<<2020, 2, 29, 0>>),   year |-> Some(2020), district |-> Some(2)],
    [date |-> Text(<<2021, 2, 29, 12>>),  year |-> Some(2021), district |-> Missing],
    [date |-> Text(<<2021, 12, 31, 23>>), year |-> Some(2021), district |-> Some(11)] >>

SourceRow(i) ==
    LET c == Catalogue[((i - 1) % Len(Catalogue)) + 1]
    IN  [id |-> i, date |-> c.date, year |-> c.year, district |-> c.district]

SourceData(n) == [i \in 1..n |-> SourceRow(i)]

Min(a, b) == IF a < b THEN a ELSE b

\* Rows [off, off + lim) of the result: the page $offset=off, $limit=lim.
Slice(rows, off, lim) ==
    SubSeq(rows, off + 1, Min(off + lim, Len(rows)))

----------------------------------------------------------------------------
\* load_data

\* $offset and $limit of the request built at lines 37-43.
PageParams(off) == [offset |-> off, limit |-> LIMIT]

\* A loop that runs one iteration too many.
LoopRunsOneMore(p) == p <= MAX_PAGES

\* for page in range(MAX_PAGES), line 36: whether iteration number p runs.
LoopRuns(p) == p < MAX_PAGES

\* An offset that advances by one row less than a page.
NextOffsetOverlapping(off) == off + LIMIT - 1

\* offset += LIMIT, line 54.
NextOffset(off) == off + LIMIT

\* pd.concat(chunks, ignore_index=True) of a non-empty list, line 59.
RECURSIVE ConcatChunks(_)
ConcatChunks(cs) ==
    IF cs = <<>> THEN <<>> ELSE Head(cs) \o ConcatChunks(Tail(cs))

\* A load that parses dates without errors="coerce".
LoadStrict == FALSE

\* errors= of the pd.to_datetime call at line 60 is "coerce".
LoadCoerces == TRUE

\* Lines 59-63: what load_data returns for the chunks it collected.
\* pd.concat raises ValueError ("No objects to concatenate") on an empty list.
LoadReturn(cs) ==
    IF cs = <<>> THEN [raised |-> TRUE, err |-> "ValueError", df |-> <<>>]
    ELSE LET t == ConcatChunks(cs)
             cells == [i \in DOMAIN t |-> ToDatetimeCell(t[i].date, LoadCoerces)]
         IN  IF \E i \in DOMAIN t : cells[i].raised
             THEN [raised |-> TRUE, err |-> "DateParseError", df |-> <<>>]
             ELSE [raised |-> FALSE, err |-> "none",
                   df |-> [i \in DOMAIN t |-> SetCol(t[i], "date", cells[i].v)]]

----------------------------------------------------------------------------
\* Data preprocessing, lines 100-106

\* A derivation that moves the timestamp by one hour each time it is applied.
DeriveRowShifted(r, d) ==
    LET s == IF d.f = <<>> THEN d
             ELSE Timestamp(<<d.f[1], d.f[2], d.f[3], (d.f[4] + 1) % 24>>)
        r1 == SetCol(r, "date", s)
        r2 == SetCol(r1, "year", DtYear(s))
        r3 == SetCol(r2, "month", DtMonth(s))
        r4 == SetCol(r3, "hour", DtHour(s))
    IN  SetCol(r4, "weekday", AsCategorical(DtDayName(s), order))

\* Lines 100-106 on one row whose date cell parsed to d.
DeriveRow(r, d) ==
    LET r1 == SetCol(r, "date", d)
        r2 == SetCol(r1, "year", DtYear(d))
        r3 == SetCol(r2, "month", DtMonth(d))
        r4 == SetCol(r3, "hour", DtHour(d))
        r5 == SetCol(r4, "weekday", DtDayName(d))
    IN  SetCol(r5, "weekday", AsCategorical(r5.weekday, order))

\* Lines 100-106 on a table; pd.to_datetime at line 100 has no errors=
\* argument, so it raises on a cell it cannot parse.
Derive(t) ==
    LET cells == [i \in DOMAIN t |-> ToDatetimeCell(t[i].date, FALSE)]
    IN  IF \E i \in DOMAIN t : cells[i].raised
        THEN [raised |-> TRUE, df |-> t]
        ELSE [raised |-> FALSE,
              df |-> [i \in DOMAIN t |-> DeriveRow(t[i], cells[i].v)]]

----------------------------------------------------------------------------
\* Aggregation

\* The elements of a finite set of integers in ascending order.
RECURSIVE SortedInts(_)
SortedInts(S) ==
    IF S = {} THEN <<>>
    ELSE LET m == CHOOSE x \in S : \A y \in S : x <= y
         IN  <<m>> \o SortedInts(S \ {m})

\* The elements of a sequence that satisfy keep, in the sequence's order.
RECURSIVE SelectIn(_, _)
SelectIn(s, keep) ==
    IF s = <<>> THEN <<>>
    ELSE IF Head(s) \in keep THEN <<Head(s)>> \o SelectIn(Tail(s), keep)
    ELSE SelectIn(Tail(s), keep)

\* The columns of df that hold a pandas Categorical (line 106).
CategoricalCols == {"weekday"}

\* The categories of a categorical column.
Categories(col) == order

\* Number of rows of t whose cell in column col is the value k.
CountOf(t, col, k) == Cardinality({i \in DOMAIN t : t[i][col] = Some(k)})

\* The values that occur in column col of t; missing cells are no value.
Observed(t, col) == {t[i][col][1] : i \in {j \in DOMAIN t : t[j][col] # Missing}}

\* A group-by that keeps only the categories that occur.
GroupIndexObservedOnly(t, col, observed) ==
    IF col \in CategoricalCols
    THEN SelectIn(Categories(col), Observed(t, col))
    ELSE SortedInts(Observed(t, col))

\* The index of t.groupby(col, observed=observed).size(): for a categorical
\* column every category, in category order, unless observed; for any other
\* column the values that occur, ascending, whatever observed is.
GroupIndex(t, col, observed) ==
    IF col \in CategoricalCols
    THEN IF observed THEN SelectIn(Categories(col), Observed(t, col))
         ELSE Categories(col)
    ELSE SortedInts(Observed(t, col))

\* t.groupby(col, observed=observed).size()
GroupBySize(t, col, observed) ==
    LET idx == GroupIndex(t, col, observed)
    IN  [i \in DOMAIN idx |-> <<idx[i], CountOf(t, col, idx[i])>>]

\* target_districts, line 203.
target_districts == {1, 11, 16}

\* district_names, lines 207-211.
district_names(d) ==
    IF d = 1 THEN "Central (Downtown)"
    ELSE IF d = 11 THEN "West Side (Harrison)"
    ELSE "Northwest (Safe Zone)"

\* The (year, district) pairs of a set in ascending order.
RECURSIVE SortedPairs(_)
SortedPairs(S) ==
    IF S = {} THEN <<>>
    ELSE LET m == CHOOSE x \in S : \A y \in S :
                      x[1] < y[1] \/ (x[1] = y[1] /\ x[2] <= y[2])
         IN  <<m>> \o SortedPairs(S \ {m})

\* Lines 201-213: df.groupby(['year','district']).size(), kept for the target
\* districts and labelled.  Rows with a missing year or district form no group.
RegionalTrends(t) ==
    LET full == {i \in DOMAIN t : t[i].year # Missing /\ t[i].district # Missing}
        keys == {<<t[i].year[1], t[i].district[1]>> : i \in full}
        kept == SortedPairs({k \in keys : k[2] \in target_districts})
    IN  [n \in DOMAIN kept |->
            [year |-> kept[n][1], district |-> kept[n][2],
             incidents |-> Cardinality({i \in full :
                 t[i].year[1] = kept[n][1] /\ t[i].district[1] = kept[n][2]}),
             District_Name |-> district_names(kept[n][2])]]

----------------------------------------------------------------------------
\* The main script: load_data() at line 96, then lines 100-109 and 277

HistIdle ==
    /\ usual = "rows"
    /\ hpc = "idle"
    /\ yr = FIRST_YEAR
    /\ hchunks = <<>>
    /\ hrequests = <<>>
    /\ houtcomes = <<>>
    /\ df_hist = <<>>

Init ==
    /\ data \in {SourceData(n) : n \in 0..MaxRows}
    /\ pc = "fetch"
    /\ page = 0
    /\ offset = 0
    /\ chunks = <<>>
    /\ requests = <<>>
    /\ responses = <<>>
    /\ err = "none"
    /\ df = <<>>
    /\ crimes_by_hour = <<>>
    /\ crimes_by_weekday = <<>>
    /\ crime_trends = <<>>
    /\ HistIdle

\* One iteration of the loop of load_data (lines 36-57) whose request is
\* answered with the page p, followed, when the loop ends with it (an empty
\* page, or the last iteration of the range), by lines 59-63.
TakePage(p) ==
    LET empty == p = <<>>
        cs == IF empty THEN chunks ELSE Append(chunks, p)
        last == empty \/ ~LoopRuns(page + 1)
        ret == LoadReturn(cs)
    IN  /\ requests' = Append(requests, PageParams(offset))
        /\ responses' = Append(responses, [kind |-> "page", rows |-> p])
        /\ chunks' = cs
        /\ offset' = IF empty THEN offset ELSE NextOffset(offset)
        /\ page' = IF empty THEN page ELSE page + 1
        /\ IF last
           THEN /\ pc' = IF ret.raised THEN "failed" ELSE "loaded"
                /\ err' = ret.err
                /\ df' = ret.df
           ELSE UNCHANGED <<pc, err, df>>
        /\ UNCHANGED <<data, crimes_by_hour, crimes_by_weekday, crime_trends>>

\* pd.read_csv at line 47 returns a page.  The source answers with LIMIT rows
\* of its result starting at some row o: the requested offset when it is
\* faithful, any other when it is not.
FetchPage ==
    /\ pc = "fetch"
    /\ LoopRuns(page)
    /\ \E o \in 0..Len(data) : TakePage(Slice(data, o, LIMIT))
    /\ UNCHANGED histVars

\* A failed request that is caught and skipped, the loop going on.
FetchFailsCaught ==
    /\ pc = "fetch"
    /\ LoopRuns(page)
    /\ requests' = Append(requests, PageParams(offset))
    /\ responses' = Append(responses, [kind |-> "fail", rows |-> <<>>])
    /\ page' = page + 1
    /\ UNCHANGED <<data, pc, offset, chunks, err, df, crimes_by_hour,
                   crimes_by_weekday, crime_trends>>
    /\ UNCHANGED histVars

\* pd.read_csv at line 47 raises: nothing in load_data or at line 96 catches
\* it, so the script ends with it.
FetchFails ==
    /\ pc = "fetch"
    /\ LoopRuns(page)
    /\ requests' = Append(requests, PageParams(offset))
    /\ responses' = Append(responses, [kind |-> "fail", rows |-> <<>>])
    /\ pc' = "failed"
    /\ err' = "SourceUnavailable"
    /\ UNCHANGED <<data, page, offset, chunks, df, crimes_by_hour,
                   crimes_by_weekday, crime_trends>>
    /\ UNCHANGED histVars

\* Lines 100-109: derived columns, then the two group-bys.
Preprocess ==
    /\ pc = "loaded"
    /\ LET r == Derive(df)
       IN  IF r.raised
           THEN /\ pc' = "failed"
                /\ err' = "DateParseError"
                /\ UNCHANGED <<df, crimes_by_hour, crimes_by_weekday>>
           ELSE /\ pc' = "aggregated"
                /\ df' = r.df
                /\ crimes_by_hour' = GroupBySize(r.df, "hour", FALSE)
                /\ crimes_by_weekday' = GroupBySize(r.df, "weekday", FALSE)
                /\ UNCHANGED err
    /\ UNCHANGED <<data, page, offset, chunks, requests, responses, crime_trends>>
    /\ UNCHANGED histVars

\* chart_regional_crime_trends(), line 277, which the script reaches once
\* load_data_for_evolution_chart has returned.
ChartRegionalCrimeTrends ==
    /\ pc = "aggregated"
    /\ crime_trends' = RegionalTrends(df)
    /\ pc' = "done"
    /\ UNCHANGED <<data, page, offset, chunks, requests, responses, err, df,
                   crimes_by_hour, crimes_by_weekday>>
    /\ UNCHANGED histVars

Next == FetchPage \/ FetchFails \/ Preprocess \/ ChartRegionalCrimeTrends

Spec == Init /\ [][Next]_vars

\* pd.read_csv at line 47 blocks until the source has answered or the request
\* has failed: an iteration of the loop that has started is completed.
FairSpec == Spec /\ WF_vars(FetchFails \/ FetchPage)

----------------------------------------------------------------------------
\* load_data_for_evolution_chart, lines 65-90

\* The rows the source holds for one year (date, year, latitude, longitude).
HistPage(y) ==
    << [date |-> Text(<<y, 1, 1, 0>>), year |-> Some(y),
        latitude |-> Some(41), longitude |-> Some(-87)] >>

\* The answers the source can give to the request for one year.
Outcomes == {"rows", "empty", "fail"}

\* Number of years answered so far other than in the usual way.
Unusual(outs) == Cardinality({i \in DOMAIN outs : outs[i] # usual})

Allowed(outcome) == outcome = usual \/ Unusual(houtcomes) < MaxUnusual

\* for yr in range(2001, 2025), line 71: whether the iteration for y runs.
YearRuns(y) == y < END_YEAR

\* Lines 87-90: what the loader returns for the chunks it collected.
HistReturn(cs) ==
    IF cs = <<>> THEN [raised |-> TRUE, err |-> "ValueError", df |-> <<>>]
    ELSE [raised |-> FALSE, err |-> "none", df |-> ConcatChunks(cs)]

\* The end of one iteration of the loop with the chunks cs: the next year,
\* or lines 87-90 after the last one.
EndYear(cs) ==
    LET ret == HistReturn(cs)
    IN  /\ hrequests' = Append(hrequests, yr)
        /\ hchunks' = cs
        /\ yr' = yr + 1
        /\ IF YearRuns(yr + 1)
           THEN UNCHANGED <<hpc, df_hist>>
           ELSE /\ hpc' = IF ret.raised THEN "failed" ELSE "done"
                /\ df_hist' = ret.df
        /\ UNCHANGED <<usual>>
        /\ UNCHANGED mainVars

\* Lines 72-83: the request for year yr returns a chunk, empty or not, which
\* is appended.
FetchYear ==
    /\ hpc = "loop"
    /\ YearRuns(yr)
    /\ \E outcome \in {"rows", "empty"} :
          /\ Allowed(outcome)
          /\ houtcomes' = Append(houtcomes, outcome)
          /\ EndYear(Append(hchunks, IF outcome = "rows" THEN HistPage(yr) ELSE <<>>))

\* A failed request for a year that ends the load.
FetchYearFailsRaises ==
    /\ hpc = "loop"
    /\ YearRuns(yr)
    /\ Allowed("fail")
    /\ houtcomes' = Append(houtcomes, "fail")
    /\ hrequests' = Append(hrequests, yr)
    /\ hpc' = "failed"
    /\ UNCHANGED <<usual, yr, hchunks, df_hist>>
    /\ UNCHANGED mainVars

\* Lines 84-85: the request for year yr raises; the exception is caught and
\* printed, and the loop goes on.
FetchYearFails ==
    /\ hpc = "loop"
    /\ YearRuns(yr)
    /\ Allowed("fail")
    /\ houtcomes' = Append(houtcomes, "fail")
    /\ EndYear(hchunks)

\* The main script when it calls load_data_for_evolution_chart at line 266:
\* here after loading a one-row result from a faithful source.
MainAtLine266 ==
    LET d == SourceData(1)
        p == Slice(d, 0, LIMIT)
        t == Derive(LoadReturn(<<p>>).df).df
    IN  /\ data = d
        /\ pc = "aggregated"
        /\ page = 1
        /\ offset = NextOffset(0)
        /\ chunks = <<p>>
        /\ requests = <<PageParams(0), PageParams(NextOffset(0))>>
        /\ responses = <<[kind |-> "page", rows |-> p], [kind |-> "page", rows |-> <<>>]>>
        /\ err = "none"
        /\ df = t
        /\ crimes_by_hour = GroupBySize(t, "hour", FALSE)
        /\ crimes_by_weekday = GroupBySize(t, "weekday", FALSE)
        /\ crime_trends = <<>>

EvoInit ==
    /\ MainAtLine266
    /\ usual \in Outcomes
    /\ hpc = "loop"
    /\ yr = FIRST_YEAR
    /\ hchunks = <<>>
    /\ hrequests = <<>>
    /\ houtcomes = <<>>
    /\ df_hist = <<>>

EvoNext == FetchYear \/ FetchYearFails

EvoSpec == EvoInit /\ [][EvoNext]_vars

----------------------------------------------------------------------------
\* Properties

Returned == pc \in {"loaded", "aggregated", "done"}
Aggregated == pc \in {"aggregated", "done"}

SomeRequestFailed == \E i \in DOMAIN responses : responses[i].kind = "fail"

\* The pages the source returned are k non-empty pages, then an empty one.
EndsWithFirstEmptyPage ==
    /\ ~SomeRequestFailed
    /\ responses # <<>>
    /\ responses[Len(responses)].rows = <<>>
    /\ \A i \in 1..(Len(responses) - 1) : responses[i].rows # <<>>

\* Every request was answered with the rows [offset, offset + limit) of the
\* source's result.
Faithful ==
    \A i \in DOMAIN responses :
        /\ responses[i].kind = "page"
        /\ responses[i].rows = Slice(data, requests[i].offset, requests[i].limit)

Ids(t) == [i \in DOMAIN t |-> t[i].id]
Keys(series) == [i \in DOMAIN series |-> series[i][1]]

RECURSIVE SumCounts(_)
SumCounts(series) ==
    IF series = <<>> THEN 0 ELSE Head(series)[2] + SumCounts(Tail(series))

RECURSIVE SumIncidents(_)
SumIncidents(trends) ==
    IF trends = <<>> THEN 0 ELSE Head(trends).incidents + SumIncidents(Tail(trends))

NonNull(t, col) == Cardinality({i \in DOMAIN t : t[i][col] # Missing})

\* The rows as the source delivered them, in fetch order.
Raw == ConcatChunks(chunks)
Unparseable(r) == ~Parseable(r.date.f)

\* C1: load_data issues at most MAX_PAGES page requests in one load and its
\* loop always comes to an end, whatever the source answers (pages that are
\* never empty included).
C1_LoadTerminatesWithinCeiling ==
    [](Len(requests) <= MAX_PAGES) /\ <>(pc # "fetch")

\* C1 witness: a load that ended after MAX_PAGES requests, none of which was
\* answered with an empty page.
C1_CeilingReached ==
    /\ Returned
    /\ Len(requests) = MAX_PAGES
    /\ \A i \in DOMAIN responses :
          responses[i].kind = "page" /\ responses[i].rows # <<>>

\* C2: when the source answers k non-empty pages (0 <= k < MAX_PAGES) and then
\* an empty page, no request failing, load_data stops at the empty page and
\* returns the rows of the k pages concatenated in fetch order.
C2_StopsAtFirstEmptyPage ==
    (pc # "fetch" /\ EndsWithFirstEmptyPage) =>
        /\ Returned
        /\ Ids(df) = Ids(ConcatChunks(
               [i \in 1..(Len(responses) - 1) |-> responses[i].rows]))

\* C3: when a page request fails, the load fails with that error, the failed
\* request is the last one issued, and no incident table is returned.
C3_FailedRequestFailsLoad ==
    SomeRequestFailed =>
        /\ pc = "failed"
        /\ err = "SourceUnavailable"
        /\ responses[Len(responses)].kind = "fail"
        /\ \A i \in 1..(Len(responses) - 1) : responses[i].kind = "page"
        /\ Len(requests) = Len(responses)
        /\ df = <<>>

\* C3 witness: a request failed after pages had been fetched.
C3_FailedAfterPages ==
    /\ SomeRequestFailed
    /\ Len(chunks) >= 2

\* C4: load_data_for_evolution_chart requests the years 2001..2024 once each
\* in ascending order; a failed or an empty answer does not end the loop
\* before the last year.
C4_OneRequestPerYear ==
    /\ hrequests = [i \in 1..(yr - FIRST_YEAR) |-> FIRST_YEAR + i - 1]
    /\ Len(houtcomes) = Len(hrequests)
    /\ yr <= END_YEAR
    /\ (hpc \in {"done", "failed"} => yr = END_YEAR)
    /\ (hpc = "loop" => yr < END_YEAR)

\* C4 witness: a finished historical load in which one year failed and
\* another was empty, before the last year.
C4_FailedAndEmptyYears ==
    /\ hpc = "done"
    /\ Len(hrequests) = END_YEAR - FIRST_YEAR
    /\ \E i, j \in 1..(Len(houtcomes) - 1) :
          houtcomes[i] = "fail" /\ houtcomes[j] = "empty"

\* C5: a load fails only when a request failed; a first page that is empty
\* gives a successful load with an empty incident table; the historical load
\* fails only when requests failed.
C5_FailureOnlyWhenRequestFailed ==
    /\ (pc = "failed" => SomeRequestFailed)
    /\ ((pc # "fetch" /\ ~SomeRequestFailed /\ responses[1].rows = <<>>) =>
            (Returned /\ df = <<>>))
    /\ (hpc = "failed" => \E i \in DOMAIN houtcomes : houtcomes[i] = "fail")

\* C6: crimes_by_hour has exactly the keys 0..23, and its counts sum to the
\* number of rows whose hour is not missing.
C6_HourlyHas24Keys ==
    Aggregated =>
        /\ Keys(crimes_by_hour) = [i \in 1..24 |-> i - 1]
        /\ SumCounts(crimes_by_hour) = NonNull(df, "hour")

\* C7: crimes_by_weekday has exactly the keys Monday..Sunday in that order, a
\* weekday without incident has count 0, and the counts sum to the number of
\* rows whose weekday is not missing.
C7_WeekdayHas7KeysInOrder ==
    Aggregated =>
        /\ Keys(crimes_by_weekday) =
              <<"Monday", "Tuesday", "Wednesday", "Thursday", "Friday",
                "Saturday", "Sunday">>
        /\ \A i \in DOMAIN crimes_by_weekday :
              crimes_by_weekday[i][2] =
                  Cardinality({j \in DOMAIN df :
                      df[j].weekday = <<crimes_by_weekday[i][1]>>})
        /\ SumCounts(crimes_by_weekday) = NonNull(df, "weekday")

\* C7 witness: a table with a weekday that has no incident, a weekday with
\* several, and a row without weekday.
C7_AbsentWeekday ==
    /\ Aggregated
    /\ \E i, j \in DOMAIN crimes_by_weekday :
          crimes_by_weekday[i][2] = 0 /\ crimes_by_weekday[j][2] >= 2
    /\ NonNull(df, "weekday") < Len(df)

\* C8: a row whose timestamp cannot be parsed makes neither the load nor the
\* derivation fail; it stays in the table with a null date, its derived year,
\* month, hour and weekday are null, and no aggregate counts it.
C8_UnparseableRowsKeptNotCounted ==
    /\ err \notin {"DateParseError"}
    /\ Returned =>
          /\ Len(df) = Len(Raw)
          /\ \A i \in DOMAIN Raw : Unparseable(Raw[i]) =>
                (df[i].id = Raw[i].id /\ df[i].date = NaT)
    /\ Aggregated =>
          /\ \A i \in DOMAIN Raw : Unparseable(Raw[i]) =>
                /\ df[i].year = Missing
                /\ df[i].month = Missing
                /\ df[i].hour = Missing
                /\ df[i].weekday = Missing
          /\ SumCounts(crimes_by_hour) =
                Cardinality({i \in DOMAIN Raw : ~Unparseable(Raw[i])})
          /\ SumCounts(crimes_by_weekday) =
                Cardinality({i \in DOMAIN Raw : ~Unparseable(Raw[i])})
    /\ pc = "done" =>
          SumIncidents(crime_trends) =
              Cardinality({i \in DOMAIN Raw :
                  /\ ~Unparseable(Raw[i])
                  /\ Raw[i].district # Missing
                  /\ Raw[i].district[1] \in target_districts})

\* C8 witness: the script ran to its end on a table with rows that parse and
\* rows that do not, one of the latter in a district that is charted.
C8_UnparseableRowLoaded ==
    /\ pc = "done"
    /\ \E i, j \in DOMAIN Raw :
          /\ Unparseable(Raw[i])
          /\ Raw[i].district # Missing
          /\ Raw[i].district[1] \in target_districts
          /\ ~Unparseable(Raw[j])

\* C9: deriving the calendar fields of a table that is already derived
\* changes no row and no field.
C9_DeriveIdempotent ==
    Aggregated => Derive(df) = [raised |-> FALSE, df |-> df]

\* C9 witness: a derived table with a null timestamp and a valid one.
C9_DerivedWithNull ==
    /\ Aggregated
    /\ \E i, j \in DOMAIN df : df[i].date = NaT /\ df[j].date # NaT

\* C10: request number i (from 0) carries offset i*LIMIT and limit LIMIT, the
\* offset having advanced once per non-empty page; against a faithful source
\* of N rows the returned table is rows 1..min(N, MAX_PAGES*LIMIT), each once,
\* in order.
C10_OffsetsTileTheResult ==
    /\ \A i \in DOMAIN requests :
          requests[i] = [offset |-> (i - 1) * LIMIT, limit |-> LIMIT]
    /\ offset = Len(chunks) * LIMIT
    /\ (Returned /\ Faithful) =>
          Ids(df) = [i \in 1..Min(Len(data), MAX_PAGES * LIMIT) |-> i]

\* C10 witness: a faithful source with more rows than MAX_PAGES pages hold.
C10_FaithfulBeyondCeiling ==
    /\ Returned
    /\ Faithful
    /\ Len(data) > MAX_PAGES * LIMIT

====
